---- MODULE Spec2Model ----
(***************************************************************************)
(* Model of the cinefil poster generator: image_utils.py (geometry         *)
(* helpers, adaptive font sizing, smart_resize, create_image_poster),      *)
(* main.py (generate_movie_posters, create_movie_poster) and               *)
(* tmdb_utils.py (fetch_movie_images, download_image).                     *)
(*                                                                         *)
(* Bounding boxes are tuples <<left, top, right, bottom>>; Python's        *)
(* bbox[0..3] is bbox[1..4] here.                                          *)
(***************************************************************************)
EXTENDS Integers, Sequences, FiniteSets, TLC

VARIABLES
    \* the pure functions: the call made, its inputs and its result
    fn, arg, ret,
    \* one call of create_image_poster: its position, the files, fonts and
    \* measurements it finds, its locals, and the file at output_image_path
    ppc, env, loc, outfile,
    \* one run of generate_movie_posters: its position, the files on disk, the
    \* answer of TMDB, the save_original flag, whether Blur.png and the fonts
    \* are in place, the list being processed, and the downloads that failed
    pc, fs, tmdb, save_original, assets, cur, failed

fnVars     == <<fn, arg, ret>>
posterVars == <<ppc, env, loc, outfile>>
mainVars   == <<pc, fs, tmdb, save_original, assets, cur, failed>>
vars       == <<fn, arg, ret, ppc, env, loc, outfile,
               pc, fs, tmdb, save_original, assets, cur, failed>>

---------------------------------------------------------------------------
(* Bounds of the model. *)

\* box coordinates of the add_bboxes inputs range over 0..MaxCoord
MaxCoord == 1
\* horizontal box coordinates of the center_position inputs: 0..MaxX
MaxX == 3
\* poster widths handed to center_position: 0..MaxPosterW
MaxPosterW == 3
\* start sizes of the font search: MinStart..MaxStart (below and above the floor)
MinStart == 8
MaxStart == 12
\* measured right edges of the text and width budgets: 0..MaxTextW
MaxTextW == 2
\* source image dimensions: 1..MaxSrcDim, plus the 1000x2000 scenario
MaxSrcDim == 40
\* target dimensions besides the poster's own: 1..MaxTarget
MaxTarget == 2

---------------------------------------------------------------------------
(* Program constants. *)

MinFontSize == 10
DefaultFontSize == 244
PosterW == 2400
PosterH == 2940
MantissaBits == 53

Min(a, b) == IF a <= b THEN a ELSE b
Max(a, b) == IF a >= b THEN a ELSE b

---------------------------------------------------------------------------
(* image_utils.center_position *)

\* variant: the offset clamped at the left edge of the poster
center_position_Clamped(final_poster_width, obj_bbox) ==
    LET obj_width == obj_bbox[3] - obj_bbox[1]
    IN  Max(0, (final_poster_width - obj_width) \div 2)

center_position(final_poster_width, obj_bbox) ==
    LET obj_width == obj_bbox[3] - obj_bbox[1]
    IN  (final_poster_width - obj_width) \div 2

(* image_utils.add_bboxes *)

\* variant: the bottom edge taken from the second box alone
add_bboxes_Bottom2(bbox1, bbox2) ==
    LET left   == Min(bbox1[1], bbox2[1])
        top    == Min(bbox1[2], bbox2[2])
        right  == Max(bbox1[3], bbox2[3])
    IN  <<left, top, right, bbox2[4]>>

add_bboxes(bbox1, bbox2) ==
    LET left   == Min(bbox1[1], bbox2[1])
        top    == Min(bbox1[2], bbox2[2])
        right  == Max(bbox1[3], bbox2[3])
        bottom == Max(bbox1[4], bbox2[4])
    IN  <<left, top, right, bottom>>

---------------------------------------------------------------------------
(* image_utils.get_adaptive_font.  A font file and a text are abstracted   *)
(* by textRight, the function from a font size to the right edge           *)
(* draw.textbbox((0, 0), text, font)[2] measured at that size.  The        *)
(* result is the size of the font object returned.                         *)

\* variant: the floor test off by one (>= instead of >)
RECURSIVE AdaptiveLoop_FloorOff(_, _, _)
AdaptiveLoop_FloorOff(textRight, max_width, font_size) ==
    IF textRight[font_size] > max_width /\ font_size >= MinFontSize
    THEN AdaptiveLoop_FloorOff(textRight, max_width, font_size - 1)
    ELSE font_size

\* variant: the width comparison reversed (shrinks while the text fits)
RECURSIVE AdaptiveLoop_Reversed(_, _, _)
AdaptiveLoop_Reversed(textRight, max_width, font_size) ==
    IF textRight[font_size] < max_width /\ font_size > MinFontSize
    THEN AdaptiveLoop_Reversed(textRight, max_width, font_size - 1)
    ELSE font_size

RECURSIVE AdaptiveLoop(_, _, _)
AdaptiveLoop(textRight, max_width, font_size) ==
    IF textRight[font_size] > max_width /\ font_size > MinFontSize
    THEN AdaptiveLoop(textRight, max_width, font_size - 1)
    ELSE font_size

get_adaptive_font(textRight, max_width, initial_font_size) ==
    AdaptiveLoop(textRight, max_width, initial_font_size)

---------------------------------------------------------------------------
(* Python float arithmetic (IEEE 754 binary64, round to nearest, ties to   *)
(* even) on the quotients and products smart_resize computes.  The double  *)
(* nearest to a / b is kept exactly as                                     *)
(*        a / b  -  err / (den * 2^(MantissaBits - 1 - exp))               *)
(* with exp = floor(log2(a / b)), so that every number handled stays a     *)
(* small integer.                                                          *)

RECURSIVE Pow2(_)
Pow2(n) == IF n = 0 THEN 1 ELSE 2 * Pow2(n - 1)

\* 2^k modulo b
RECURSIVE PowMod2(_, _)
PowMod2(k, b) == IF k = 0 THEN 1 % b ELSE (2 * PowMod2(k - 1, b)) % b

\* floor(log2(a / b)) for positive a, b
RECURSIVE ExpOf(_, _)
ExpOf(a, b) ==
    IF a >= b
    THEN IF a >= 2 * b THEN 1 + ExpOf(a, 2 * b) ELSE 0
    ELSE ExpOf(2 * a, b) - 1

\* the float a / b of two positive ints
FloatDiv(a, b) ==
    LET e     == ExpOf(a, b)
        k     == MantissaBits - 1 - e
        \* remainder of a * 2^(k-1) and of a * 2^k modulo b
        rprev == ((a % b) * PowMod2(k - 1, b)) % b
        r     == (2 * rprev) % b
        \* the last mantissa bit before rounding
        odd   == 2 * rprev >= b
        up    == 2 * r > b \/ (2 * r = b /\ odd)
    IN  [num |-> a, den |-> b, exp |-> e, err |-> IF up THEN r - b ELSE r]

\* max(p, q) of two floats; rounding is monotone, so the exact quotients decide
FloatMax(p, q) == IF q.num * p.den > p.num * q.den THEN q ELSE p

\* int(x * f) for a positive int x and a float f: the exact product is
\* rounded to a double and then truncated.  Only a product whose exact
\* quotient x * num / den is an integer n0 can be rounded across an integer:
\* a float below the quotient (err > 0) gives a product just below n0, which
\* rounds back to n0 only within half the spacing of the doubles below n0.
IntOfMul(x, f) ==
    LET n0   == (x * f.num) \div f.den
        rem0 == (x * f.num) % f.den
    IN  IF rem0 # 0 \/ f.err <= 0
        THEN n0
        ELSE LET L == ExpOf(n0, 1)
                 s == IF n0 = Pow2(L) THEN L - f.exp ELSE L - f.exp + 1
             IN  IF 4 * x * f.err > f.den * Pow2(s) THEN n0 - 1 ELSE n0

---------------------------------------------------------------------------
(* image_utils.smart_resize, on the sizes: the source image is w x h, the  *)
(* result records the canvas size, the size of the resized image and the   *)
(* position it is pasted at.                                               *)

smart_resize(image_size, target_size) ==
    LET scale_width  == FloatDiv(target_size[1], image_size[1])
        scale_height == FloatDiv(target_size[2], image_size[2])
        scale        == FloatMax(scale_width, scale_height)
        new_width    == IntOfMul(image_size[1], scale)
        new_height   == IntOfMul(image_size[2], scale)
    IN  [canvas     |-> target_size,
         new_width  |-> new_width,
         new_height |-> new_height,
         x_offset   |-> (target_size[1] - new_width) \div 2,
         y_offset   |-> (target_size[2] - new_height) \div 2]

---------------------------------------------------------------------------
(* The pure functions, each applied to inputs drawn from bounded sets.     *)

Boxes(maxx, maxy) == (0..maxx) \X (0..maxy) \X (0..maxx) \X (0..maxy)

StartSizes == MinStart..MaxStart
SrcDims    == (1..MaxSrcDim) \cup {1000, 2000}
Targets    == {<<PosterW, PosterH>>} \cup ((1..MaxTarget) \X (1..MaxTarget))

FnInputs ==
         [f : {"center_position"}, W : 0..MaxPosterW,
          bbox : Boxes(MaxX, 1), other : Boxes(MaxX, 1)]
    \cup [f : {"add_bboxes"}, a : Boxes(MaxCoord, MaxCoord),
          b : Boxes(MaxCoord, MaxCoord), c : Boxes(MaxCoord, MaxCoord)]
    \cup [f : {"get_adaptive_font"}, textRight : [StartSizes -> 0..MaxTextW],
          max_width : 0..MaxTextW, wider : 0..MaxTextW, start : StartSizes]
    \cup [f : {"smart_resize"}, src : SrcDims \X SrcDims, target : Targets]

PosterIdle ==
    /\ ppc = "idle"
    /\ env = <<>>
    /\ loc = <<>>
    /\ outfile = [format |-> "absent", image |-> <<>>]

MainIdle ==
    /\ pc = "idle"
    /\ fs = <<>>
    /\ tmdb = [ok |-> FALSE, posters |-> <<>>, backdrops |-> <<>>]
    /\ save_original = FALSE
    /\ assets = TRUE
    /\ cur = <<>>
    /\ failed = {}

InitFn ==
    /\ fn = "pending"
    /\ arg \in FnInputs
    /\ ret = <<>>
    /\ PosterIdle
    /\ MainIdle

CallCenterPosition ==
    /\ fn = "pending" /\ arg.f = "center_position"
    /\ fn' = "returned"
    /\ ret' = center_position(arg.W, arg.bbox)
    /\ UNCHANGED <<arg, posterVars, mainVars>>

CallAddBboxes ==
    /\ fn = "pending" /\ arg.f = "add_bboxes"
    /\ fn' = "returned"
    /\ ret' = add_bboxes(arg.a, arg.b)
    /\ UNCHANGED <<arg, posterVars, mainVars>>

CallGetAdaptiveFont ==
    /\ fn = "pending" /\ arg.f = "get_adaptive_font"
    /\ fn' = "returned"
    /\ ret' = get_adaptive_font(arg.textRight, arg.max_width, arg.start)
    /\ UNCHANGED <<arg, posterVars, mainVars>>

CallSmartResize ==
    /\ fn = "pending" /\ arg.f = "smart_resize"
    /\ fn' = "returned"
    /\ ret' = smart_resize(arg.src, arg.target)
    /\ UNCHANGED <<arg, posterVars, mainVars>>

NextFn ==
    \/ CallCenterPosition
    \/ CallAddBboxes
    \/ CallGetAdaptiveFont
    \/ CallSmartResize

SpecFn == InitFn /\ [][NextFn]_vars

Returned(f) == fn = "returned" /\ arg.f = f

---------------------------------------------------------------------------
(* Python's float floor division x // 1.2 and x // 1.3 of an int x >= 0.   *)
(* The double 1.2 lies below 12/10, so a quotient that is exactly an       *)
(* integer stays that integer; the double 1.3 lies above 13/10, so an      *)
(* exact multiple of 13 falls just short of its quotient.                  *)

FloorDiv12(x) == (10 * x) \div 12

FloorDiv13(x) ==
    IF x > 0 /\ (10 * x) % 13 = 0 THEN (10 * x) \div 13 - 1 ELSE (10 * x) \div 13

---------------------------------------------------------------------------
(* image_utils.create_image_poster, statement by statement.                *)

BrandTop == 450
TitlePadding == 200
BrandFontSize == 126
SmallFontSize == 44

target_size == <<PosterW, PosterH>>

\* what the call can find: the source image (missing or of a size), the blur
\* image, the widths FreeType measures, and a file at the output path
SourceImages ==
    {[readable |-> FALSE, size |-> <<0, 0>>]} \cup
    {[readable |-> TRUE, size |-> sz] : sz \in {<<1000, 2000>>, <<2000, 1000>>, <<31, 37>>}}
\* right edge of the title per point of font size
TitleUnits == {5, 20, 300}
CineBoxes == {<<0, 30, 250, 120>>, <<3, 28, 240, 118>>}
FilBoxes  == {<<0, 20, 120, 130>>, <<-2, 22, 300, 128>>}
RoomBoxes == {<<0, 10, 230, 50>>}
DayBoxes  == {<<0, 10, 260, 52>>}

NoLocals ==
    [poster |-> <<>>, blur |-> <<>>, overlay |-> <<>>, composited |-> FALSE,
     font_size |-> 0, title_size |-> 0, fonts |-> {}, layout |-> <<>>,
     drawn |-> FALSE]

PosterEnvs ==
    [source : SourceImages, blur : BOOLEAN, title_unit : TitleUnits,
     cine_bbox : CineBoxes, fil_bbox : FilBoxes,
     room_bbox : RoomBoxes, day_bbox : DayBoxes,
     out0 : {"absent", "old file"}]

\* the file at output_image_path before the call
OutFile0 == [format |-> env.out0, image |-> NoLocals]

\* draw.textbbox((0, 0), title_text, font)[2] at each size of the title font
TitleRight(unit) == [s \in 1..DefaultFontSize |-> unit * s]
TitleBbox(unit, size) == <<0, size \div 5, unit * size, size>>

\* lines 134-143: the blur layer on its own transparent canvas.  paste clips
\* the layer to the canvas: rows row_from .. row_to - 1 hold the layer, every
\* other row of the canvas stays transparent.
BlurWithOffset(poster_height, blur_height) ==
    LET offset_y == FloorDiv12(poster_height) - blur_height
        paste_y  == -offset_y
    IN  [offset_y |-> offset_y,
         paste_y  |-> paste_y,
         row_from |-> Max(0, paste_y),
         row_to   |-> Min(poster_height, paste_y + blur_height)]

\* lines 166-192: the positions of the five texts
Layout(width, height, title_bbox, cine_bbox, fil_bbox, room_bbox, day_bbox) ==
    LET cine_width     == cine_bbox[3] - cine_bbox[1]
        fil_width      == fil_bbox[3] - fil_bbox[1]
        cinefil_width  == cine_width + fil_width
        cine_height    == cine_bbox[4] - cine_bbox[2]
        fil_height     == fil_bbox[4] - fil_bbox[2]
        cinefil_height == cine_height + fil_height
        cinefil_bbox   == add_bboxes(cine_bbox, fil_bbox)
        cinefil_start_position == center_position(width, cinefil_bbox)
        cine_position  == <<cinefil_start_position,
                            height - BrandTop + (cine_height \div 4)>>
    IN  [title_position |-> <<center_position(width, title_bbox),
                              height - (height \div 4)>>,
         cine_position  |-> cine_position,
         fil_position   |-> <<cinefil_start_position + cine_bbox[3],
                              height - BrandTop>>,
         room_position  |-> <<cine_position[1] + room_bbox[3]
                                  + FloorDiv13(cinefil_width),
                              cine_position[2] + (cinefil_height \div 4)>>,
         day_position   |-> <<cine_position[1] - day_bbox[3]
                                  - (cinefil_width \div 3),
                              cine_position[2] + (cinefil_height \div 4)>>]

InitPoster ==
    /\ ppc = "start"
    /\ env \in PosterEnvs
    /\ loc = NoLocals
    /\ outfile = OutFile0
    /\ fn = "none" /\ arg = <<>> /\ ret = <<>>
    /\ MainIdle

\* line 131: smart_resize opens the source image, which raises when the file
\* is missing or unreadable
PSmartResize ==
    /\ ppc = "start"
    /\ IF ~env.source.readable
       THEN ppc' = "raised" /\ UNCHANGED loc
       ELSE /\ ppc' = "resized"
            /\ loc' = [loc EXCEPT !.poster = smart_resize(env.source.size, target_size)]
    /\ UNCHANGED <<env, outfile, fnVars, mainVars>>

\* line 132: the blur image, stretched to the poster size
POpenBlur ==
    /\ ppc = "resized"
    /\ IF ~env.blur
       THEN ppc' = "raised" /\ UNCHANGED loc
       ELSE /\ ppc' = "blurred"
            /\ loc' = [loc EXCEPT !.blur = <<PosterW, PosterH>>]
    /\ UNCHANGED <<env, outfile, fnVars, mainVars>>

\* variant: the composite is written to the output path before the text
PComposite_SavesEarly ==
    /\ ppc = "blurred"
    /\ ppc' = "composited"
    /\ loc' = [loc EXCEPT
                 !.overlay = BlurWithOffset(loc.poster.canvas[2], loc.blur[2]),
                 !.composited = TRUE]
    /\ outfile' = [format |-> "PNG", image |-> loc']
    /\ UNCHANGED <<env, fnVars, mainVars>>

\* lines 135-146: offset, paste and alpha composite
PComposite ==
    /\ ppc = "blurred"
    /\ ppc' = "composited"
    /\ loc' = [loc EXCEPT
                 !.overlay = BlurWithOffset(loc.poster.canvas[2], loc.blur[2]),
                 !.composited = TRUE]
    /\ UNCHANGED <<env, outfile, fnVars, mainVars>>

\* a font file is read at each load (ImageFont.truetype); the read fails
\* when the file is missing or unreadable at that moment
LoadFont(from, to, name, size, readable) ==
    /\ ppc = from
    /\ IF ~readable
       THEN ppc' = "raised" /\ UNCHANGED loc
       ELSE /\ ppc' = to
            /\ loc' = [loc EXCEPT !.fonts = @ \cup {<<name, size>>},
                                  !.font_size = IF name = "title" THEN size ELSE @]
    /\ UNCHANGED <<env, outfile, fnVars, mainVars>>

max_title_width == loc.poster.canvas[1] - TitlePadding

\* the loop test of get_adaptive_font (line 63) on the title
TitleTooWide ==
    /\ TitleRight(env.title_unit)[loc.font_size] > max_title_width
    /\ loc.font_size > MinFontSize

\* lines 152-155 and 55-56: get_adaptive_font loads the title font at 244
PTitleFont == \E readable \in BOOLEAN :
    LoadFont("composited", "fitting", "title", DefaultFontSize, readable)

\* lines 63-65: one turn of the loop of get_adaptive_font
PTitleShrink == \E readable \in BOOLEAN :
    /\ ppc = "fitting"
    /\ TitleTooWide
    /\ LoadFont("fitting", "fitting", "title", loc.font_size - 1, readable)

\* line 67: get_adaptive_font returns the font
PTitleFitted ==
    /\ ppc = "fitting"
    /\ ~TitleTooWide
    /\ ppc' = "title_font"
    /\ loc' = [loc EXCEPT !.title_size = loc.font_size]
    /\ UNCHANGED <<env, outfile, fnVars, mainVars>>

\* line 156
PGloockFont == \E readable \in BOOLEAN :
    LoadFont("title_font", "gloock_font", "gloock", BrandFontSize, readable)
\* line 157
PCharmonmanFont == \E readable \in BOOLEAN :
    LoadFont("gloock_font", "charmonman_font", "charmonman", BrandFontSize, readable)
\* line 158
PSmallFont == \E readable \in BOOLEAN :
    LoadFont("charmonman_font", "small_font", "small", SmallFontSize, readable)

\* lines 166-192
PLayout ==
    /\ ppc = "small_font"
    /\ ppc' = "laid_out"
    /\ loc' = [loc EXCEPT !.layout =
                 Layout(loc.poster.canvas[1], loc.poster.canvas[2],
                        TitleBbox(env.title_unit, loc.title_size),
                        env.cine_bbox, env.fil_bbox, env.room_bbox, env.day_bbox)]
    /\ UNCHANGED <<env, outfile, fnVars, mainVars>>

\* lines 195-199
PDraw ==
    /\ ppc = "laid_out"
    /\ ppc' = "drawn"
    /\ loc' = [loc EXCEPT !.drawn = TRUE]
    /\ UNCHANGED <<env, outfile, fnVars, mainVars>>

\* line 202
PSave ==
    /\ ppc = "drawn"
    /\ ppc' = "saved"
    /\ outfile' = [format |-> "PNG", image |-> loc]
    /\ UNCHANGED <<env, loc, fnVars, mainVars>>

NextPoster ==
    \/ PSmartResize
    \/ POpenBlur
    \/ PComposite
    \/ PTitleFont
    \/ PTitleShrink
    \/ PTitleFitted
    \/ PGloockFont
    \/ PCharmonmanFont
    \/ PSmallFont
    \/ PLayout
    \/ PDraw
    \/ PSave

SpecPoster == InitPoster /\ [][NextPoster]_vars

---------------------------------------------------------------------------
(* main.generate_movie_posters and main.create_movie_poster, with          *)
(* tmdb_utils.fetch_movie_images and tmdb_utils.download_image.            *)

\* the longest list of images TMDB returns
MaxImages == 2

Labels == {"poster", "backdrop"}

\* f"originals/original_{label}_{i + 1}.jpg", f"posters/temp_{label}_{i + 1}.jpg"
\* and f"posters/final_movie_{label}_{i + 1}.png"; i is the 1-based index
OriginalPath(label, i) == <<"originals/original", label, i>>
TempPath(label, i)     == <<"posters/temp", label, i>>
FinalPath(label, i)    == <<"posters/final_movie", label, i>>

Paths == {"originals/original", "posters/temp", "posters/final_movie"}
             \X Labels \X (1..MaxImages)

\* the 'posters' and 'backdrops' lists of the TMDB answer, n entries long
ImageList(kind, n) == [i \in 1..n |-> [file_path |-> <<kind, i>>]]

\* fetch_movie_images returns None (ok = FALSE) or the lists
TmdbAnswers ==
    {[ok |-> FALSE, posters |-> <<>>, backdrops |-> <<>>]} \cup
    {[ok |-> TRUE, posters |-> ImageList("/poster", n),
      backdrops |-> ImageList("/backdrop", m)] :
        n \in 0..MaxImages, m \in 0..MaxImages}

\* the content of a path: no file, a downloaded image or a rendered poster,
\* with the TMDB file_path the bytes come from
Absent == [kind |-> "absent", from |-> <<"none", 0>>]
Stale  == [kind |-> "image", from |-> <<"earlier run", 0>>]

\* files an earlier run can have left behind
StaleFiles == SUBSET {OriginalPath("poster", 1), TempPath("poster", 1)}

InitMain ==
    /\ pc = "start"
    /\ \E stale \in StaleFiles :
          fs = [p \in Paths |-> IF p \in stale THEN Stale ELSE Absent]
    /\ tmdb \in TmdbAnswers
    /\ save_original \in BOOLEAN
    /\ assets \in BOOLEAN
    /\ cur = <<>>
    /\ failed = {}
    /\ fn = "none" /\ arg = <<>> /\ ret = <<>>
    /\ PosterIdle

\* create_movie_poster is entered with a list and a label
EnterLoop(images, label) ==
    /\ cur' = [images |-> images, label |-> label, i |-> 1]
    /\ pc' = "download"

\* main.py lines 84-98: fetch, and the posters
GenFetchAndPosters ==
    /\ pc = "start"
    /\ IF ~tmdb.ok
       THEN pc' = "done" /\ UNCHANGED cur
       ELSE IF tmdb.posters = <<>>
            THEN pc' = "backdrops" /\ UNCHANGED cur
            ELSE EnterLoop(tmdb.posters, "poster")
    /\ UNCHANGED <<fs, tmdb, save_original, assets, failed, fnVars, posterVars>>

\* main.py lines 101-106: the backdrops; the list handed on is posters
GenBackdrops ==
    /\ pc = "backdrops"
    /\ IF tmdb.backdrops = <<>>
       THEN pc' = "done" /\ UNCHANGED cur
       ELSE EnterLoop(tmdb.posters, "backdrop")
    /\ UNCHANGED <<fs, tmdb, save_original, assets, failed, fnVars, posterVars>>

original_image_path ==
    IF save_original THEN OriginalPath(cur.label, cur.i)
                     ELSE TempPath(cur.label, cur.i)

output_image_path == FinalPath(cur.label, cur.i)

\* tmdb_utils.download_image: the bytes are written when the request
\* succeeds; a failed request is logged and the function returns
download_image(fsys, file_path, output_path, ok) ==
    IF ok THEN [fsys EXCEPT ![output_path] = [kind |-> "image", from |-> file_path]]
          ELSE fsys

\* main.py lines 35-44: the next image of the list is downloaded
LoopDownload == \E ok \in BOOLEAN :
    /\ pc = "download"
    /\ cur.i <= Len(cur.images)
    /\ fs' = download_image(fs, cur.images[cur.i].file_path, original_image_path, ok)
    /\ failed' = IF ok THEN failed ELSE failed \cup {<<cur.label, cur.i>>}
    /\ pc' = "render"
    /\ UNCHANGED <<tmdb, save_original, assets, cur, fnVars, posterVars>>

\* create_image_poster as a whole: it raises when the source image, Blur.png
\* or a font cannot be opened, and otherwise writes the poster rendered from
\* the file at poster_image_path
create_image_poster(fsys, poster_image_path, output_path) ==
    IF fsys[poster_image_path] = Absent \/ ~assets
    THEN [raised |-> TRUE, fs |-> fsys]
    ELSE [raised |-> FALSE,
          fs |-> [fsys EXCEPT ![output_path] =
                     [kind |-> "poster", from |-> fsys[poster_image_path].from]]]

\* main.py lines 47-57: an exception of create_image_poster is caught nowhere
\* and ends the run
LoopRender ==
    /\ pc = "render"
    /\ LET out == create_image_poster(fs, original_image_path, output_image_path)
       IN  IF out.raised
           THEN pc' = "aborted" /\ UNCHANGED <<fs, cur>>
           ELSE /\ fs' = out.fs
                /\ IF save_original
                   THEN pc' = "download" /\ cur' = [cur EXCEPT !.i = @ + 1]
                   ELSE pc' = "remove" /\ UNCHANGED cur
    /\ UNCHANGED <<tmdb, save_original, assets, failed, fnVars, posterVars>>

\* main.py lines 60-61
LoopRemove ==
    /\ pc = "remove"
    /\ fs' = [fs EXCEPT ![original_image_path] = Absent]
    /\ cur' = [cur EXCEPT !.i = @ + 1]
    /\ pc' = "download"
    /\ UNCHANGED <<tmdb, save_original, assets, failed, fnVars, posterVars>>

\* the list is exhausted: create_movie_poster returns
LoopReturn ==
    /\ pc = "download"
    /\ cur.i > Len(cur.images)
    /\ pc' = IF cur.label = "poster" THEN "backdrops" ELSE "done"
    /\ UNCHANGED <<fs, tmdb, save_original, assets, cur, failed, fnVars, posterVars>>

NextMain ==
    \/ GenFetchAndPosters
    \/ GenBackdrops
    \/ LoopDownload
    \/ LoopRender
    \/ LoopRemove
    \/ LoopReturn

SpecMain == InitMain /\ [][NextMain]_vars

---------------------------------------------------------------------------
(* Properties of the pure functions, under SpecFn.                         *)

Fits(s) == arg.textRight[s] <= arg.max_width
FitSizes == {s \in MinFontSize..arg.start : Fits(s)}
IsLargestFit(s) == s \in FitSizes /\ \A t \in FitSizes : t <= s

\* C1 as stated: for every start size the size returned by
\* get_adaptive_font is the largest size in 10..start at which the text
\* fits, start itself when the text fits there, 10 when it fits nowhere,
\* and never below 10.
C1_AnyStartSize ==
    Returned("get_adaptive_font") =>
        /\ ret >= MinFontSize
        /\ (Fits(arg.start) => ret = arg.start)
        /\ (FitSizes = {} => ret = MinFontSize)
        /\ (FitSizes # {} => IsLargestFit(ret))

\* C1 amended: for a start size of at least 10 the size returned is the
\* largest size in 10..start at which the text fits, start itself when the
\* text fits there, 10 when it fits nowhere, and never below 10; for a start
\* size below 10 the loop does not run and the size returned is the start
\* size itself.
C1_FitFont ==
    Returned("get_adaptive_font") =>
        /\ arg.start >= MinFontSize =>
              /\ ret >= MinFontSize
              /\ (Fits(arg.start) => ret = arg.start)
              /\ (FitSizes = {} => ret = MinFontSize)
              /\ (FitSizes # {} => IsLargestFit(ret))
        /\ arg.start < MinFontSize => ret = arg.start

\* the search shrank the font from the start size to a fit above the floor
C1_Witness ==
    /\ Returned("get_adaptive_font")
    /\ arg.start = MinFontSize + 2
    /\ ret = MinFontSize + 1
    /\ Fits(ret) /\ ~Fits(arg.start)

\* C2: smart_resize returns a canvas of exactly the target size that the
\* resized image covers completely: new_width >= W, new_height >= H, both
\* offsets <= 0 and offset + new size >= target on each axis; a 1000x2000
\* source on the 2400x2940 target is resized to 2400x4800 and pasted at
\* (0, -930).
C2_FillsTarget ==
    Returned("smart_resize") =>
        /\ ret.canvas = arg.target
        /\ ret.new_width >= arg.target[1]
        /\ ret.new_height >= arg.target[2]
        /\ ret.x_offset <= 0 /\ ret.y_offset <= 0
        /\ ret.x_offset + ret.new_width >= arg.target[1]
        /\ ret.y_offset + ret.new_height >= arg.target[2]
        /\ (arg.src = <<1000, 2000>> /\ arg.target = <<PosterW, PosterH>>) =>
              /\ ret.new_width = 2400 /\ ret.new_height = 4800
              /\ ret.x_offset = 0 /\ ret.y_offset = -930

BoxWidth(bbox) == bbox[3] - bbox[1]

\* C3: center_position(W, bbox) is floor((W - (right - left)) / 2): negative
\* when the bbox is wider than W, floor(W / 2) when the bbox has zero width,
\* and the same for every bbox of the same width.
C3_CenterPosition ==
    Returned("center_position") =>
        /\ 2 * ret <= arg.W - BoxWidth(arg.bbox)
        /\ arg.W - BoxWidth(arg.bbox) < 2 * ret + 2
        /\ (BoxWidth(arg.bbox) > arg.W => ret < 0)
        /\ (BoxWidth(arg.bbox) = 0 => 2 * ret <= arg.W /\ arg.W < 2 * ret + 2)
        /\ (BoxWidth(arg.other) = BoxWidth(arg.bbox) =>
               center_position(arg.W, arg.other) = ret)

\* a bbox wider than the poster, centered at a negative offset, and another
\* bbox of the same width at other coordinates
C3_Witness ==
    /\ Returned("center_position")
    /\ BoxWidth(arg.bbox) > arg.W /\ ret < 0
    /\ arg.other # arg.bbox /\ BoxWidth(arg.other) = BoxWidth(arg.bbox)

WellFormed(bbox) == bbox[1] <= bbox[3] /\ bbox[2] <= bbox[4]

\* C4: add_bboxes is commutative, associative and idempotent, its result is
\* the component-wise min of lefts/tops and max of rights/bottoms, and it
\* keeps left <= right and top <= bottom when both inputs do.
C4_UnionBbox ==
    Returned("add_bboxes") =>
        /\ ret = add_bboxes(arg.b, arg.a)
        /\ add_bboxes(ret, arg.c) = add_bboxes(arg.a, add_bboxes(arg.b, arg.c))
        /\ add_bboxes(arg.a, arg.a) = arg.a
        /\ \A i \in {1, 2} : ret[i] \in {arg.a[i], arg.b[i]}
                             /\ ret[i] <= arg.a[i] /\ ret[i] <= arg.b[i]
        /\ \A i \in {3, 4} : ret[i] \in {arg.a[i], arg.b[i]}
                             /\ ret[i] >= arg.a[i] /\ ret[i] >= arg.b[i]
        /\ (WellFormed(arg.a) /\ WellFormed(arg.b) => WellFormed(ret))

\* two well-formed boxes whose union is neither of them, and a third box
\* that enlarges the union again
C4_Witness ==
    /\ Returned("add_bboxes")
    /\ WellFormed(arg.a) /\ WellFormed(arg.b)
    /\ ret # arg.a /\ ret # arg.b
    /\ add_bboxes(ret, arg.c) # ret

\* C5: get_adaptive_font is monotone in the width budget: for budgets
\* max_width <= wider the size returned for max_width is <= the size
\* returned for wider, whatever the widths measured at the sizes are.
C5_MonotoneBudget ==
    (Returned("get_adaptive_font") /\ arg.max_width <= arg.wider) =>
        ret <= get_adaptive_font(arg.textRight, arg.wider, arg.start)

\* a font whose measured width is not monotone in the size, for which the
\* wider budget yields a strictly larger size
C5_Witness ==
    /\ Returned("get_adaptive_font")
    /\ arg.max_width < arg.wider
    /\ ret < get_adaptive_font(arg.textRight, arg.wider, arg.start)
    /\ \E s \in StartSizes \ {MaxStart} : arg.textRight[s] > arg.textRight[s + 1]

---------------------------------------------------------------------------
(* Properties of create_image_poster, under SpecPoster.                    *)

AllFonts == {<<"title", loc.title_size>>, <<"gloock", BrandFontSize>>,
             <<"charmonman", BrandFontSize>>, <<"small", SmallFontSize>>}

\* C6: create_image_poster writes no partial output: when opening the
\* source image or the blur image or loading a font fails, the call has
\* failed for good (no step follows) and the file at output_image_path is
\* as it was before the call; the file is written only by the last step,
\* after every load, the composite and the whole text layout.
C6_NoPartialOutput ==
    /\ ppc = "raised" => (outfile = OutFile0 /\ ~ENABLED NextPoster)
    /\ outfile # OutFile0 =>
          /\ ppc = "saved"
          /\ loc.poster # <<>> /\ loc.blur # <<>> /\ loc.composited
          /\ AllFonts \subseteq loc.fonts
          /\ loc.layout # <<>> /\ loc.drawn
          /\ outfile = [format |-> "PNG", image |-> loc]

\* the last font load failed, after the composite and three font loads, with
\* a file already at the output path
C6_Witness ==
    /\ ppc = "raised"
    /\ loc.composited
    /\ {f[1] : f \in loc.fonts} = {"title", "gloock", "charmonman"}
    /\ env.out0 = "old file"

\* C9: the blur layer is pasted at (0, -offset_y) with
\* offset_y = floor(base_height / 1.2) - blur_height, which shifts the layer
\* up so that it ends at canvas row floor(base_height / 1.2) = 2450, the part
\* above the frame being clipped; the rows below stay transparent.
C9_BlurEndsAtOffsetRow ==
    loc.composited =>
        /\ loc.overlay.offset_y = FloorDiv12(loc.poster.canvas[2]) - loc.blur[2]
        /\ loc.overlay.paste_y = -loc.overlay.offset_y
        /\ loc.overlay.paste_y <= 0
        /\ loc.overlay.row_from = 0
        /\ loc.overlay.row_to = FloorDiv12(loc.poster.canvas[2])
        /\ loc.overlay.row_to = 2450

\* C10: the first part of the brand mark is drawn at
\* x = center_position(width, union of the two bboxes),
\* y = height - 450 + floor(part1_height / 4), the second at
\* x = first x + part1_bbox.right, y = height - 450, and the mark, from the
\* first part's left ink edge to the second part's right ink edge, is
\* centered on the canvas within 1 px.
C10_BrandMarkCentered ==
    loc.layout # <<>> =>
        LET cine  == loc.layout.cine_position
            fil   == loc.layout.fil_position
            w     == loc.poster.canvas[1]
            h     == loc.poster.canvas[2]
            left_ink  == cine[1] + env.cine_bbox[1]
            right_ink == fil[1] + env.fil_bbox[3]
        IN  /\ cine[1] = center_position(w, add_bboxes(env.cine_bbox, env.fil_bbox))
            /\ cine[2] = h - BrandTop + ((env.cine_bbox[4] - env.cine_bbox[2]) \div 4)
            /\ fil[1] = cine[1] + env.cine_bbox[3]
            /\ fil[2] = h - BrandTop
            \* |(left_ink + right_ink) / 2 - w / 2| <= 1
            /\ left_ink + right_ink - w <= 2
            /\ w - (left_ink + right_ink) <= 2

---------------------------------------------------------------------------
(* Properties of generate_movie_posters, under SpecMain.                   *)

RenderedFrom(label, i, image) ==
    fs[FinalPath(label, i)] = [kind |-> "poster", from |-> image.file_path]

\* C7: after a run in which every download and render succeeds there is one
\* output final_movie_poster_<i> for each entry i of the fetched posters,
\* rendered from that poster, and one output final_movie_backdrop_<i> for
\* each entry i of the fetched backdrops, rendered from that backdrop.
C7_OneOutputPerImage ==
    (pc = "done" /\ tmdb.ok /\ failed = {}) =>
        /\ \A i \in 1..Len(tmdb.posters) :
              RenderedFrom("poster", i, tmdb.posters[i])
        /\ \A i \in 1..Len(tmdb.backdrops) :
              RenderedFrom("backdrop", i, tmdb.backdrops[i])

LoopEnded == pc \in {"backdrops", "done"}

\* C8: a failed download only skips its own item: no output of the item is
\* built from that download, the later items of the list are still
\* downloaded and rendered, the run never aborts because of a failed
\* download (with Blur.png and the fonts in place it does not abort at
\* all), and with save_original = false no temp file of the run is left
\* when the loop ends.
C8_FailedDownloadSkipsItem ==
    /\ assets => pc # "aborted"
    /\ \A d \in failed :
          fs[FinalPath(d[1], d[2])].from # tmdb.posters[d[2]].file_path
    /\ (LoopEnded /\ tmdb.ok) =>
          \A i \in 1..Len(tmdb.posters) :
              <<"poster", i>> \notin failed =>
                  RenderedFrom("poster", i, tmdb.posters[i])
    /\ (LoopEnded /\ ~save_original) =>
          \A l \in Labels, i \in 1..MaxImages :
              fs[TempPath(l, i)] \in {Absent, Stale}

====
